---- MODULE Spec2Model ----
(***************************************************************************)
(* Graceful-shutdown coordination of plainq/servekit: the supervising      *)
(* Server (server.go), the gRPC listener (grpc_listener.go) and the HTTP   *)
(* listener (http_listener.go), and the retry executor retry.Do with its   *)
(* backoff strategies (tern/ternary.go).  Each component has its own       *)
(* specification over the shared caller context ctx.                       *)
(***************************************************************************)
EXTENDS Integers, Naturals, Sequences, FiniteSets, TLC

\* ------------------------------------------------------------------ bounds
NumNames == 2
MaxRPCs == 2
MaxConns == 2
MaxAttempts == 3       \* largest WithMaxAttempts argument
UnitsPerMs == 2        \* a time.Duration counts units of 1/UnitsPerMs ms
MaxMinInterval == 3    \* largest minimum interval of a backoff, in units
MaxMaxInterval == 10   \* largest maximum interval (and static delay), in units
MaxJitter == 4         \* largest jitter bound, in units
MaxFactor == 2         \* largest exponential factor
MaxRetry == 3          \* largest argument of Next
MaxFiles == 3          \* most entries of the mutations filesystem
MaxRuns == 3           \* most MutateSchema runs
MaxOptions == 2        \* most ResponseOptions of one ErrorHTTP call

Names == 1..NumNames
NoListener == "none"

\* ------------------------------------------------------------------ errors
\* A Go error value: nil, or a message and the set of values reachable by
\* Unwrap (what errors.Is can match).
Nil == [nil |-> TRUE, msg |-> <<>>, chain |-> {}]

\* A sentinel: a comparable error value identified by <<name, index>>.
NewError(text, name, index) ==
    [nil |-> FALSE, msg |-> <<text>>, chain |-> {<<name, index>>}]

\* errors.Is(err, target) for a sentinel target: some value in err's Unwrap
\* chain equals target.
Is(err, target) == ~err.nil /\ ~target.nil /\ target.chain \subseteq err.chain

\* fmt.Errorf(prefix + ": %w", err): the result unwraps to err.
Wrapf(prefix, err) ==
    [nil |-> FALSE, msg |-> prefix \o err.msg, chain |-> err.chain]

\* fmt.Errorf("%w: %s", sentinel, err.Error()): only the sentinel is
\* wrapped, err contributes its text.
WrapSentinelf(sentinel, err) ==
    [nil |-> FALSE, msg |-> sentinel.msg \o err.msg, chain |-> sentinel.chain]

ErrGracefullyShutdown == NewError("shut down listener gracefully", "ErrGracefullyShutdown", 0)
DeadlineExceeded == NewError("context deadline exceeded", "DeadlineExceeded", 0)
Canceled == NewError("context canceled", "Canceled", 0)
ErrRetryLimitReached == NewError("retry limit reached", "ErrRetryLimitReached", 0)
\* The transport failure of a failing listener (expectedError of the tests).
ListenerError == NewError("listener error", "expectedError", 0)

\* ------------------------------------------------------------------ state
VARIABLES
    ctxDone,      \* the context passed to Serve by the caller is cancelled
    \* --- Server (server.go)
    registry,     \* s.listeners: name -> listener (NoListener: no entry)
    mu,           \* s.mu: "unlocked" | "rlocked"
    spc,          \* Server.Serve: "idle" | "running" | "returned"
    tpc,          \* per name, the g.Go task: "none" | "running" | "done"
    tlis,         \* per name, the listener captured by the task
    terr,         \* per name, the value listener.Serve returned
    gErr,         \* errgroup: first non-nil error of a task
    gCancelled,   \* errgroup: cancel of listenerCtx was called
    result,       \* the value Server.Serve returned
    rhist,        \* history: the names registered and the last overwrite
    \* --- ListenerGRPC (grpc_listener.go)
    gpc,          \* ListenerGRPC.Serve: "idle" | "running" | "returned" | "panicked"
    gResult,      \* the value Serve returned, or the value it panicked with
    ggErr,        \* Serve's errgroup: first non-nil error
    hsPc,         \* handleShutdown: "none" | "waitCtx" | "racing" | "returned"
    hsErr,        \* the value handleShutdown returned
    hsBranch,     \* the select case handleShutdown took: "none" | "done" | "deadline"
    gsPc,         \* the GracefulStop goroutine: "none" | "spawned" | "draining" | "done"
    stopPc,       \* the Stop goroutine: "none" | "spawned" | "done"
    slPc,         \* the serve-loop goroutine: "none" | "starting" | "serving" | "returned"
    slErr,        \* the value grpc.Server.Serve returned
    grpcStopped,  \* grpc.Server: Stop or GracefulStop has begun
    grpcRPCs,     \* grpc.Server: in-flight RPCs
    gTimer,       \* shutdownCtx: "unset" | "armed" | "fired" | "cancelled"
    \* --- ListenerHTTP (http_listener.go)
    hAddrEmpty,   \* l.server.Addr == ""
    hpc,          \* ListenerHTTP.Serve: "idle" | "running" | "returned"
    hResult,      \* the value Serve returned
    hgErr,        \* Serve's errgroup: first non-nil error
    hgCancelled,  \* Serve's errgroup: cancel of serveCtx was called
    hhsPc,        \* handleShutdown: "none" | "waitCtx" | "spawned" | "draining" | "returned"
    hhsErr,       \* the value handleShutdown returned
    hhsBranch,    \* how Shutdown ended: "none" | "drained" | "deadline"
    hslPc,        \* the serve-loop task: "none" | "starting" | "serving" | "returned"
    hslErr,       \* the value serveFunc returned
    httpShutdown, \* http.Server: Shutdown has begun, the listeners are closed
    httpConns,    \* http.Server: connections with a request in flight
    hTimer,       \* shutdownCtx: "unset" | "armed" | "fired" | "cancelled"
    \* --- retry.Do (tern/ternary.go, package retry)
    dpc,          \* Do: "idle" | "top" | "waiting" | "returned" | "panicked"
    dMax,         \* o.maxRetries
    dBackoff,     \* o.backoff
    di,           \* the loop variable i
    dTimer,       \* the backoff timer: "none" | "armed" | "fired" | "stopped"
    dDelay,       \* the duration the last timer was created with
    dResult,      \* the value Do returned
    dCalls,       \* history: the number of invocations of fn
    dWaits,       \* history: the number of timers created
    dRets,        \* history: the values fn returned
    dCancelAt,    \* history: Do's position when ctx was cancelled
    \* --- Backoff strategies (tern/ternary.go, package retry)
    boArgs,       \* the arguments the strategy was constructed with
    bo,           \* the strategy value
    bn,           \* the argument of the last Next call: -1 before any
    bout,         \* what the last Next call did
    \* --- roundTripper (httpkit/middlewares.go)
    rtPc,         \* RoundTrip: "none" | "idle" | "loop" | "sleeping" | "returned" | "panicked"
    rtCfgMax,     \* cfg.retryMaxAttempts
    rtMax,        \* t.maxAttempts
    rtBackoff,    \* t.backoff (NoBackoff: nil)
    rtI,          \* the loop variable i
    rtRes,        \* res: the status of the last response, NoResponse for nil
    rtRet,        \* what RoundTrip returned: [res, err]
    rtSends,      \* history: the number of t.client.Do calls
    rtOuts,       \* history: what the t.client.Do calls returned
    \* --- Evolver (dbkit/litekit/schema_evolution.go)
    evPc,         \* MutateSchema: "none" | "idle" | "inTx"
    evEntries,    \* e.mutations sorted by name: per entry, whether it is a .sql file
    evTable,      \* schema_version: "absent" | "norow" | "ready"
    evStored,     \* schema_version.version as committed in the database
    evRead,       \* schemaVersionInfo.Version
    evIdx,        \* the position of the range over mutations
    evTx,         \* the versions applied in the open transaction
    evLast,       \* how the last run ended: "none" | "ok" | "failed"
    evRuns,       \* history: the number of runs started
    evCommitted,  \* history: the versions committed, in commit order
    evBefore,     \* history: stored version and commits when the run began
    \* --- ErrorHTTP (httpkit/middlewares.go)
    ehPc,         \* "idle" | "written"
    ehErr,        \* the err argument of the last call
    ehOptions,    \* the options of the last call
    ehStatus      \* the status the last call wrote

serverVars == <<registry, mu, spc, tpc, tlis, terr, gErr, gCancelled, result>>
grpcVars == <<gpc, gResult, ggErr, hsPc, hsErr, hsBranch, gsPc, stopPc, slPc,
              slErr, grpcStopped, grpcRPCs, gTimer>>
httpVars == <<hAddrEmpty, hpc, hResult, hgErr, hgCancelled, hhsPc, hhsErr, hhsBranch,
              hslPc, hslErr, httpShutdown, httpConns, hTimer>>
retryVars == <<dpc, dMax, dBackoff, di, dTimer, dDelay, dResult, dCalls, dWaits,
               dRets, dCancelAt>>
backoffVars == <<boArgs, bo, bn, bout>>
\* The variables of the components outside the Server, ListenerGRPC and
\* ListenerHTTP, and the history of the registry.
rtVars == <<rtPc, rtCfgMax, rtMax, rtBackoff, rtI, rtRes, rtRet, rtSends, rtOuts>>
evVars == <<evPc, evEntries, evTable, evStored, evRead, evIdx, evTx, evLast, evRuns,
            evCommitted, evBefore>>
ehVars == <<ehPc, ehErr, ehOptions, ehStatus>>
otherVars == <<retryVars, backoffVars, rtVars, evVars, ehVars>>
vars == <<ctxDone, serverVars, rhist, grpcVars, httpVars, otherVars>>

\* The variables an action of each component leaves alone.
notServer == <<rhist, grpcVars, httpVars, otherVars>>
notGrpc == <<serverVars, rhist, httpVars, otherVars>>
notHttp == <<serverVars, rhist, grpcVars, otherVars>>
notRetry == <<serverVars, rhist, grpcVars, httpVars, backoffVars, rtVars, evVars, ehVars>>
notBackoff == <<ctxDone, serverVars, rhist, grpcVars, httpVars, retryVars, rtVars, evVars,
                ehVars>>
notRt == <<ctxDone, serverVars, rhist, grpcVars, httpVars, retryVars, backoffVars, evVars,
           ehVars>>
notEv == <<ctxDone, serverVars, rhist, grpcVars, httpVars, retryVars, backoffVars, rtVars,
           ehVars>>
notEh == <<ctxDone, serverVars, rhist, grpcVars, httpVars, retryVars, backoffVars, rtVars,
           evVars>>

\* The caller cancels the context it passed to Serve.
Cancel ==
    /\ ~ctxDone
    /\ ctxDone' = TRUE
    /\ UNCHANGED <<serverVars, rhist, grpcVars, httpVars, otherVars>>

\* ================================================================== Server
\* The Listener implementations, one of each behaviour the interface allows:
\*   failing   returns its transport failure, whenever it happens
\*   returning returns nil on its own
\*   graceful  blocks until its context is done, returns ErrGracefullyShutdown
\*   clean     blocks until its context is done, returns nil
Listeners == {"failing", "returning", "graceful", "clean"}
Spontaneous == {"failing", "returning"}
ContextDriven == {"graceful", "clean"}

\* Done() of the context derived by errgroup.WithContext: cancelled with its
\* parent or by the group's cancel.
WithContextDone_Detached(parentDone, cancelled) == cancelled
WithContextDone(parentDone, cancelled) == parentDone \/ cancelled

\* listenerCtx, the context handed to every listener.Serve.
ListenerCtxDone == WithContextDone(ctxDone, gCancelled)

\* The value listener l's Serve returns when it returns.
ListenerServe(l) ==
    CASE l = "failing"   -> ListenerError
      [] l = "returning" -> Nil
      [] l = "graceful"  -> ErrGracefullyShutdown
      [] l = "clean"     -> Nil

\* The function given to g.Go: wraps a non-nil error with the listener name.
TaskResult(n, err) ==
    IF ~err.nil THEN Wrapf(<<"listener", ToString(n), "failed:">>, err) ELSE Nil

\* errgroup.Group.Go: a task's non-nil return value cancels the group.
GoCancels_Always(ret) == TRUE
GoCancels(ret) == ~ret.nil

\* errgroup.Group.Wait blocks until every launched task has returned.
Launched == {n \in Names : tpc[n] # "none"}
Registered == {n \in Names : registry[n] # NoListener}
WaitUnblocked_First == \E n \in Launched : tpc[n] = "done"
WaitUnblocked == \A n \in Launched : tpc[n] = "done"

\* What Server.Serve returns once g.Wait() returned err.
ServeReturnValue_Propagate(err) == err
ServeReturnValue(err) == Nil

NewServer ==
    /\ registry = [n \in Names |-> NoListener]
    /\ mu = "unlocked"
    /\ spc = "idle"
    /\ tpc = [n \in Names |-> "none"]
    /\ tlis = [n \in Names |-> NoListener]
    /\ terr = [n \in Names |-> Nil]
    /\ gErr = Nil
    /\ gCancelled = FALSE
    /\ result = Nil

\* s.listeners[name] = listener.
MapAssign_KeepFirst(m, n, l) == IF m[n] = NoListener THEN [m EXCEPT ![n] = l] ELSE m
MapAssign(m, n, l) == [m EXCEPT ![n] = l]

\* RegisterListener takes the write lock, assigns and releases the lock.
Registers(n, l) ==
    /\ mu = "unlocked"
    /\ registry' = MapAssign(registry, n, l)
    /\ UNCHANGED <<ctxDone, mu, spc, tpc, tlis, terr, gErr, gCancelled, result>>

RegisterListener(n, l) ==
    /\ Registers(n, l)
    /\ UNCHANGED notServer

\* The same call, observed: which names were registered, and which listener
\* the call replaced with which.
NoOverwrite == [name |-> 0, old |-> NoListener, new |-> NoListener]
NoRegistrations == [names |-> {}, last |-> NoOverwrite]
RegisterObserved(n, l) ==
    /\ Registers(n, l)
    /\ rhist' = [names |-> rhist.names \cup {n},
                 last |-> IF registry[n] # NoListener
                          THEN [name |-> n, old |-> registry[n], new |-> l]
                          ELSE rhist.last]
    /\ UNCHANGED <<grpcVars, httpVars, otherVars>>

\* errgroup.WithContext(ctx) and s.mu.RLock().
ServeBegin ==
    /\ spc = "idle"
    /\ mu = "unlocked"
    /\ spc' = "running"
    /\ mu' = "rlocked"
    /\ UNCHANGED <<notServer, ctxDone, registry, tpc, tlis, terr, gErr, gCancelled, result>>

\* One iteration of the range over s.listeners: g.Go starts the task.
ServeLaunch(n) ==
    /\ spc = "running"
    /\ n \in Registered
    /\ tpc[n] = "none"
    /\ tpc' = [tpc EXCEPT ![n] = "running"]
    /\ tlis' = [tlis EXCEPT ![n] = registry[n]]
    /\ UNCHANGED <<notServer, ctxDone, registry, mu, spc, terr, gErr, gCancelled, result>>

\* The task of name n: listener.Serve(listenerCtx) returns err, the task
\* returns TaskResult, errgroup records the first error and cancels.
TaskReturns(n, err) ==
    LET ret == TaskResult(n, err) IN
    /\ tpc' = [tpc EXCEPT ![n] = "done"]
    /\ terr' = [terr EXCEPT ![n] = err]
    /\ gErr' = IF ~ret.nil /\ gErr.nil THEN ret ELSE gErr
    /\ gCancelled' = (gCancelled \/ GoCancels(ret))
    /\ UNCHANGED <<notServer, ctxDone, registry, mu, spc, tlis, result>>

\* A listener that returns without being asked to.
ListenerQuits(n) ==
    /\ tpc[n] = "running"
    /\ tlis[n] \in Spontaneous
    /\ TaskReturns(n, ListenerServe(tlis[n]))

\* A listener that returns because its context is done.
ListenerStops(n) ==
    /\ tpc[n] = "running"
    /\ tlis[n] \in ContextDriven
    /\ ListenerCtxDone
    /\ TaskReturns(n, ListenerServe(tlis[n]))

\* The loop is over, g.Wait() returns (and cancels listenerCtx), the error
\* is logged, RUnlock runs as deferred.
ServeReturn ==
    /\ spc = "running"
    /\ Registered \subseteq Launched
    /\ WaitUnblocked
    /\ gCancelled' = TRUE
    /\ result' = ServeReturnValue(gErr)
    /\ spc' = "returned"
    /\ mu' = "unlocked"
    /\ UNCHANGED <<notServer, ctxDone, registry, tpc, tlis, terr, gErr>>

ServerNext ==
    \/ Cancel
    \/ \E n \in Names, l \in Listeners : RegisterListener(n, l)
    \/ ServeBegin
    \/ \E n \in Names : ServeLaunch(n)
    \/ \E n \in Names : ListenerQuits(n)
    \/ \E n \in Names : ListenerStops(n)
    \/ ServeReturn


\* Server.Serve with every registration observed.
RegistryNext ==
    \/ Cancel
    \/ \E n \in Names, l \in Listeners : RegisterObserved(n, l)
    \/ ServeBegin
    \/ \E n \in Names : ServeLaunch(n)
    \/ \E n \in Names : ListenerQuits(n)
    \/ \E n \in Names : ListenerStops(n)
    \/ ServeReturn

\* ============================================================ ListenerGRPC
\* The transport failure of the gRPC accept loop.
GrpcTransportError == NewError("accept failed", "GrpcTransportError", 0)

NewListenerGRPC ==
    /\ gpc = "idle"
    /\ gResult = Nil
    /\ ggErr = Nil
    /\ hsPc = "none"
    /\ hsErr = Nil
    /\ hsBranch = "none"
    /\ gsPc = "none"
    /\ stopPc = "none"
    /\ slPc = "none"
    /\ slErr = Nil
    /\ grpcStopped = FALSE
    /\ grpcRPCs = 0
    /\ gTimer = "unset"

\* The context handleShutdown waits on: Serve hands it the caller's ctx and
\* drops the context errgroup.WithContext derived.
GrpcShutdownCtxDone == ctxDone

\* errgroup.Group.Go of Serve's group: the first non-nil error is kept.
GrpcGroupErr(ret) == IF ~ret.nil /\ ggErr.nil THEN ret ELSE ggErr

\* The serve-loop task's return value for what grpc.Server.Serve returned
\* (ErrServerStopped is filtered out and arrives here as nil).
GrpcLoopResult(err) ==
    IF ~err.nil THEN Wrapf(<<"gRPC listener failed:">>, err) ELSE Nil

\* The select in handleShutdown: which cases are ready.
HsDoneReady == gsPc = "done"
HsDeadlineReady_NoTimer == FALSE
HsDeadlineReady == gTimer = "fired"

\* handleShutdown's return value for the error of its inner group.
HsResult(err) ==
    IF ~err.nil THEN WrapSentinelf(ErrGracefullyShutdown, err) ELSE Nil

\* How Serve ends once g.Wait() returned err: <<position, value>>.
GrpcServeOutcome_NoPanic(err) ==
    IF err.nil THEN <<"returned", Nil>> ELSE <<"returned", Wrapf(<<"serve:">>, err)>>
GrpcServeOutcome(err) ==
    IF err.nil THEN <<"returned", Nil>>
    ELSE IF Is(err, ErrGracefullyShutdown) THEN <<"panicked", err>>
    ELSE <<"returned", Wrapf(<<"serve:">>, err)>>

\* Serve: errgroup.WithContext(ctx) and the two g.Go calls.
GrpcServeBegin ==
    /\ gpc = "idle"
    /\ gpc' = "running"
    /\ hsPc' = "waitCtx"
    /\ slPc' = "starting"
    /\ UNCHANGED <<notGrpc, ctxDone, gResult, ggErr, hsErr, hsBranch, gsPc, stopPc, slErr,
                   grpcStopped, grpcRPCs, gTimer>>

\* l.server.Serve(l.listener) is called: a stopped server returns
\* ErrServerStopped at once, which the task turns into nil.
GrpcLoopStart ==
    /\ slPc = "starting"
    /\ slPc' = IF grpcStopped THEN "returned" ELSE "serving"
    /\ UNCHANGED <<notGrpc, ctxDone, gpc, gResult, ggErr, hsPc, hsErr, hsBranch, gsPc, stopPc,
                   slErr, grpcStopped, grpcRPCs, gTimer>>

\* The accept loop fails while the server is not stopping.
GrpcAcceptFails ==
    /\ slPc = "serving"
    /\ ~grpcStopped
    /\ slPc' = "returned"
    /\ slErr' = GrpcTransportError
    /\ ggErr' = GrpcGroupErr(GrpcLoopResult(GrpcTransportError))
    /\ UNCHANGED <<notGrpc, ctxDone, gpc, gResult, hsPc, hsErr, hsBranch, gsPc, stopPc,
                   grpcStopped, grpcRPCs, gTimer>>

\* grpc.Server.Serve returns nil after Stop or GracefulStop.
GrpcLoopStopped ==
    /\ slPc = "serving"
    /\ grpcStopped
    /\ slPc' = "returned"
    /\ UNCHANGED <<notGrpc, ctxDone, gpc, gResult, ggErr, hsPc, hsErr, hsBranch, gsPc, stopPc,
                   slErr, grpcStopped, grpcRPCs, gTimer>>

\* A client starts an RPC on the serving listener.
GrpcRPCArrives ==
    /\ slPc = "serving"
    /\ ~grpcStopped
    /\ grpcRPCs < MaxRPCs
    /\ grpcRPCs' = grpcRPCs + 1
    /\ UNCHANGED <<notGrpc, ctxDone, gpc, gResult, ggErr, hsPc, hsErr, hsBranch, gsPc, stopPc,
                   slPc, slErr, grpcStopped, gTimer>>

\* An in-flight RPC completes.
GrpcRPCFinishes ==
    /\ grpcRPCs > 0
    /\ grpcRPCs' = grpcRPCs - 1
    /\ UNCHANGED <<notGrpc, ctxDone, gpc, gResult, ggErr, hsPc, hsErr, hsBranch, gsPc, stopPc,
                   slPc, slErr, grpcStopped, gTimer>>

\* handleShutdown: <-ctx.Done() returns; shutdownCtx is created, the inner
\* task starts and spawns the GracefulStop goroutine.
HsObservesCancel ==
    /\ hsPc = "waitCtx"
    /\ GrpcShutdownCtxDone
    /\ hsPc' = "racing"
    /\ gsPc' = "spawned"
    /\ gTimer' = "armed"
    /\ UNCHANGED <<notGrpc, ctxDone, gpc, gResult, ggErr, hsErr, hsBranch, stopPc, slPc, slErr,
                   grpcStopped, grpcRPCs>>

\* GracefulStop begins: the server stops accepting.
GracefulStopBegins ==
    /\ gsPc = "spawned"
    /\ gsPc' = "draining"
    /\ grpcStopped' = TRUE
    /\ UNCHANGED <<notGrpc, ctxDone, gpc, gResult, ggErr, hsPc, hsErr, hsBranch, stopPc, slPc,
                   slErr, grpcRPCs, gTimer>>

\* GracefulStop returns once no RPC is in flight; close(done).
GracefulStopCompletes ==
    /\ gsPc = "draining"
    /\ grpcRPCs = 0
    /\ gsPc' = "done"
    /\ UNCHANGED <<notGrpc, ctxDone, gpc, gResult, ggErr, hsPc, hsErr, hsBranch, stopPc, slPc,
                   slErr, grpcStopped, grpcRPCs, gTimer>>

\* shutdownTimeout elapses.
GrpcDeadlineFires ==
    /\ gTimer = "armed"
    /\ gTimer' = "fired"
    /\ UNCHANGED <<notGrpc, ctxDone, gpc, gResult, ggErr, hsPc, hsErr, hsBranch, gsPc, stopPc,
                   slPc, slErr, grpcStopped, grpcRPCs>>

\* handleShutdown returns ret: the deferred cancel runs and Serve's group
\* records the value.
HsReturns(branch, err) ==
    LET ret == HsResult(err) IN
    /\ hsPc' = "returned"
    /\ hsBranch' = branch
    /\ hsErr' = ret
    /\ ggErr' = GrpcGroupErr(ret)
    /\ gTimer' = IF gTimer = "armed" THEN "cancelled" ELSE gTimer
    /\ UNCHANGED <<notGrpc, ctxDone, gpc, gResult, gsPc, slPc, slErr, grpcStopped, grpcRPCs>>

\* case <-done
HsGracefulStopWins ==
    /\ hsPc = "racing"
    /\ HsDoneReady
    /\ HsReturns("done", Nil)
    /\ UNCHANGED stopPc

\* case <-shutdownCtx.Done(): go l.server.Stop()
HsDeadlineWins ==
    /\ hsPc = "racing"
    /\ HsDeadlineReady
    /\ stopPc' = "spawned"
    /\ HsReturns("deadline", Wrapf(<<"shutdown gRPC listener:">>, DeadlineExceeded))

\* Stop runs: the listener and every connection are closed.
GrpcStopRuns ==
    /\ stopPc = "spawned"
    /\ stopPc' = "done"
    /\ grpcStopped' = TRUE
    /\ grpcRPCs' = 0
    /\ UNCHANGED <<notGrpc, ctxDone, gpc, gResult, ggErr, hsPc, hsErr, hsBranch, gsPc, slPc,
                   slErr, gTimer>>

\* Serve's g.Wait() returns when the two tasks started by g.Go returned.
GrpcWaitUnblocked_JoinsGracefulStop ==
    hsPc = "returned" /\ slPc = "returned" /\ gsPc \in {"none", "done"}
GrpcWaitUnblocked == hsPc = "returned" /\ slPc = "returned"

\* Serve: g.Wait() returns when both tasks returned; Serve returns or panics.
GrpcServeEnds ==
    /\ gpc = "running"
    /\ GrpcWaitUnblocked
    /\ gpc' = GrpcServeOutcome(ggErr)[1]
    /\ gResult' = GrpcServeOutcome(ggErr)[2]
    /\ UNCHANGED <<notGrpc, ctxDone, ggErr, hsPc, hsErr, hsBranch, gsPc, stopPc, slPc, slErr,
                   grpcStopped, grpcRPCs, gTimer>>

GrpcNext ==
    \/ Cancel
    \/ GrpcServeBegin
    \/ GrpcLoopStart
    \/ GrpcAcceptFails
    \/ GrpcLoopStopped
    \/ GrpcRPCArrives
    \/ GrpcRPCFinishes
    \/ HsObservesCancel
    \/ GracefulStopBegins
    \/ GracefulStopCompletes
    \/ GrpcDeadlineFires
    \/ HsGracefulStopWins
    \/ HsDeadlineWins
    \/ GrpcStopRuns
    \/ GrpcServeEnds

\* ============================================================ ListenerHTTP
\* The transport failure of the HTTP accept/serve loop.
HttpTransportError == NewError("listen failed", "HttpTransportError", 0)
InvalidAddress == NewError("invalid listener address:", "InvalidAddress", 0)

NewListenerHTTP ==
    /\ hpc = "idle"
    /\ hResult = Nil
    /\ hgErr = Nil
    /\ hgCancelled = FALSE
    /\ hhsPc = "none"
    /\ hhsErr = Nil
    /\ hhsBranch = "none"
    /\ hslPc = "none"
    /\ hslErr = Nil
    /\ httpShutdown = FALSE
    /\ httpConns = 0
    /\ hTimer = "unset"

\* serveCtx, derived by errgroup.WithContext(ctx).
ServeCtxDone == WithContextDone(ctxDone, hgCancelled)

\* The context handleShutdown waits on: Serve hands it serveCtx.
HttpShutdownCtxDone_CallerCtx == ctxDone
HttpShutdownCtxDone == ServeCtxDone

\* The serve-loop task's return value for what serveFunc returned
\* (http.ErrServerClosed is filtered out and arrives here as nil).
HttpLoopResult(err) ==
    IF ~err.nil THEN Wrapf(<<"listener failed:">>, err) ELSE Nil

\* The inner task of handleShutdown, for what http.Server.Shutdown returned.
HttpShutdownTaskResult(err) ==
    IF ~err.nil THEN Wrapf(<<"shutdown HTTP server:">>, err) ELSE Nil

\* handleShutdown's return value for the error of its inner group.
HttpHsResult(err) ==
    IF ~err.nil THEN WrapSentinelf(ErrGracefullyShutdown, err) ELSE Nil

\* What Serve returns once g.Wait() returned err.
HttpServeResult_AlwaysWraps(err) == WrapSentinelf(ErrGracefullyShutdown, err)
HttpServeResult(err) ==
    IF ~err.nil THEN WrapSentinelf(ErrGracefullyShutdown, err) ELSE Nil

\* A task of Serve's group returns ret: the first non-nil error is kept and
\* cancels serveCtx.
HttpGroupRecords(ret) ==
    /\ hgErr' = IF ~ret.nil /\ hgErr.nil THEN ret ELSE hgErr
    /\ hgCancelled' = (hgCancelled \/ GoCancels(ret))

\* Serve with an empty address returns at once.
HttpServeInvalidAddr ==
    /\ hpc = "idle"
    /\ hAddrEmpty
    /\ hpc' = "returned"
    /\ hResult' = InvalidAddress
    /\ UNCHANGED <<notHttp, ctxDone, hAddrEmpty, hgErr, hgCancelled, hhsPc, hhsErr,
                   hhsBranch, hslPc, hslErr, httpShutdown, httpConns, hTimer>>

\* Serve: errgroup.WithContext(ctx) and the two g.Go calls.
HttpServeBegin ==
    /\ hpc = "idle"
    /\ ~hAddrEmpty
    /\ hpc' = "running"
    /\ hhsPc' = "waitCtx"
    /\ hslPc' = "starting"
    /\ UNCHANGED <<notHttp, ctxDone, hAddrEmpty, hResult, hgErr, hgCancelled, hhsErr,
                   hhsBranch, hslErr, httpShutdown, httpConns, hTimer>>

\* serveFunc is called: a server already shut down returns ErrServerClosed
\* at once, which the task turns into nil; otherwise it listens.
HttpLoopStart ==
    /\ hslPc = "starting"
    /\ IF httpShutdown
         THEN hslPc' = "returned" /\ HttpGroupRecords(HttpLoopResult(Nil))
         ELSE hslPc' = "serving" /\ UNCHANGED <<hgErr, hgCancelled>>
    /\ UNCHANGED <<notHttp, ctxDone, hAddrEmpty, hpc, hResult, hhsPc, hhsErr, hhsBranch,
                   hslErr, httpShutdown, httpConns, hTimer>>

\* Listening or accepting fails while the server is not shutting down.
HttpServeFails ==
    /\ hslPc \in {"starting", "serving"}
    /\ ~httpShutdown
    /\ hslPc' = "returned"
    /\ hslErr' = HttpTransportError
    /\ HttpGroupRecords(HttpLoopResult(HttpTransportError))
    /\ UNCHANGED <<notHttp, ctxDone, hAddrEmpty, hpc, hResult, hhsPc, hhsErr, hhsBranch,
                   httpShutdown, httpConns, hTimer>>

\* serveFunc returns ErrServerClosed after Shutdown began.
HttpLoopClosed ==
    /\ hslPc = "serving"
    /\ httpShutdown
    /\ hslPc' = "returned"
    /\ HttpGroupRecords(HttpLoopResult(Nil))
    /\ UNCHANGED <<notHttp, ctxDone, hAddrEmpty, hpc, hResult, hhsPc, hhsErr, hhsBranch,
                   hslErr, httpShutdown, httpConns, hTimer>>

\* A client's request starts on the serving listener.
HttpRequestArrives ==
    /\ hslPc = "serving"
    /\ ~httpShutdown
    /\ httpConns < MaxConns
    /\ httpConns' = httpConns + 1
    /\ UNCHANGED <<notHttp, ctxDone, hAddrEmpty, hpc, hResult, hgErr, hgCancelled, hhsPc,
                   hhsErr, hhsBranch, hslPc, hslErr, httpShutdown, hTimer>>

\* An in-flight request completes and its connection becomes idle.
HttpRequestFinishes ==
    /\ httpConns > 0
    /\ httpConns' = httpConns - 1
    /\ UNCHANGED <<notHttp, ctxDone, hAddrEmpty, hpc, hResult, hgErr, hgCancelled, hhsPc,
                   hhsErr, hhsBranch, hslPc, hslErr, httpShutdown, hTimer>>

\* handleShutdown: <-ctx.Done() returns; shutdownCtx is created and the
\* inner task is started.
HttpHsObservesCancel ==
    /\ hhsPc = "waitCtx"
    /\ HttpShutdownCtxDone
    /\ hhsPc' = "spawned"
    /\ hTimer' = "armed"
    /\ UNCHANGED <<notHttp, ctxDone, hAddrEmpty, hpc, hResult, hgErr, hgCancelled, hhsErr,
                   hhsBranch, hslPc, hslErr, httpShutdown, httpConns>>

\* l.server.Shutdown(shutdownCtx) begins: the listeners are closed.
HttpShutdownBegins ==
    /\ hhsPc = "spawned"
    /\ hhsPc' = "draining"
    /\ httpShutdown' = TRUE
    /\ UNCHANGED <<notHttp, ctxDone, hAddrEmpty, hpc, hResult, hgErr, hgCancelled, hhsErr,
                   hhsBranch, hslPc, hslErr, httpConns, hTimer>>

\* shutdownTimeout elapses.
HttpDeadlineFires ==
    /\ hTimer = "armed"
    /\ hTimer' = "fired"
    /\ UNCHANGED <<notHttp, ctxDone, hAddrEmpty, hpc, hResult, hgErr, hgCancelled, hhsPc,
                   hhsErr, hhsBranch, hslPc, hslErr, httpShutdown, httpConns>>

\* Shutdown returned err: the inner group yields the task's error,
\* handleShutdown returns, the deferred cancel runs and Serve's group
\* records the value.
HttpHsReturns(branch, err) ==
    LET ret == HttpHsResult(HttpShutdownTaskResult(err)) IN
    /\ hhsPc' = "returned"
    /\ hhsBranch' = branch
    /\ hhsErr' = ret
    /\ HttpGroupRecords(ret)
    /\ hTimer' = IF hTimer = "armed" THEN "cancelled" ELSE hTimer
    /\ UNCHANGED <<notHttp, ctxDone, hAddrEmpty, hpc, hResult, hslPc, hslErr, httpShutdown,
                   httpConns>>

\* Shutdown returns nil: no connection has a request in flight.
HttpShutdownDrained ==
    /\ hhsPc = "draining"
    /\ httpConns = 0
    /\ HttpHsReturns("drained", Nil)

\* Shutdown returns shutdownCtx.Err(): it polls the connections before it
\* looks at the context, so the deadline passed with requests still in
\* flight; their connections are left as they are.
HttpShutdownDeadline ==
    /\ hhsPc = "draining"
    /\ hTimer = "fired"
    /\ httpConns > 0
    /\ HttpHsReturns("deadline", DeadlineExceeded)

\* Serve: g.Wait() returns when both tasks returned.
HttpServeEnds ==
    /\ hpc = "running"
    /\ hhsPc = "returned"
    /\ hslPc = "returned"
    /\ hpc' = "returned"
    /\ hResult' = HttpServeResult(hgErr)
    /\ UNCHANGED <<notHttp, ctxDone, hAddrEmpty, hgErr, hgCancelled, hhsPc, hhsErr,
                   hhsBranch, hslPc, hslErr, httpShutdown, httpConns, hTimer>>

HttpNext ==
    \/ Cancel
    \/ HttpServeInvalidAddr
    \/ HttpServeBegin
    \/ HttpLoopStart
    \/ HttpServeFails
    \/ HttpLoopClosed
    \/ HttpRequestArrives
    \/ HttpRequestFinishes
    \/ HttpHsObservesCancel
    \/ HttpShutdownBegins
    \/ HttpDeadlineFires
    \/ HttpShutdownDrained
    \/ HttpShutdownDeadline
    \/ HttpServeEnds

\* ================================================================= Backoff
\* Durations are counted in units of 1/UnitsPerMs milliseconds.
\* d / time.Millisecond: the whole milliseconds in d.
ToMs(d) == d \div UnitsPerMs
\* time.Duration(x) * time.Millisecond.
Millisecond(x) == x * UnitsPerMs

RECURSIVE Pow(_, _)
\* math.Pow(f, n) for the whole numbers in range.
Pow(f, n) == IF n = 0 THEN 1 ELSE f * Pow(f, n - 1)

\* math.Min.
Min(a, b) == IF a <= b THEN a ELSE b

\* rand.Int64N(n): a value of [0, n); it panics when n <= 0 (the empty set).
Int64N(n) == IF n <= 0 THEN {} ELSE 0..(n - 1)

\* What a call of Next does: it returns d, or it panics.
Returns(d) == [panic |-> FALSE, d |-> d]
Panics == [panic |-> TRUE, d |-> 0]

\* No strategy constructed yet.
NoBackoff ==
    [kind |-> "none", d |-> 0, factor |-> 0, min |-> 0, max |-> 0, jitter |-> 0]

\* StaticBackoff(d): the duration itself.
StaticBackoff(d) ==
    [kind |-> "static", d |-> d, factor |-> 0, min |-> 0, max |-> 0, jitter |-> 0]

\* The constructors keep whole milliseconds.
NewExponentialBackoff(f, minv, maxv, jitter) ==
    [kind |-> "exponential", d |-> 0, factor |-> f,
     min |-> ToMs(minv), max |-> ToMs(maxv), jitter |-> ToMs(jitter)]

NewConstantBackoff(minv, maxv, jitter) ==
    [kind |-> "constant", d |-> 0, factor |-> 0,
     min |-> ToMs(minv), max |-> ToMs(maxv), jitter |-> ToMs(jitter)]

NewLinearBackoff(minv, maxv, jitter) ==
    [kind |-> "linear", d |-> 0, factor |-> 0,
     min |-> ToMs(minv), max |-> ToMs(maxv), jitter |-> ToMs(jitter)]

\* backoff + jitter for every value rand.Int64N can yield; a panic when it
\* cannot yield any.
WithJitter(b, backoff) ==
    IF Int64N(b.jitter) = {}
    THEN {Panics}
    ELSE {Returns(Millisecond(backoff + j)) : j \in Int64N(b.jitter)}

StaticNext(b, retry) == {Returns(b.d)}

\* The pre-jitter delay of ExponentialBackoff.Next, in milliseconds.
ExponentialBase_FixedMult(b, retry) == Min(b.min * b.factor, b.max)
ExponentialBase(b, retry) == Min(b.min * Pow(b.factor, retry), b.max)

ExponentialNext(b, retry) ==
    IF retry <= 0 THEN {Returns(Millisecond(0))}
    ELSE IF b.min >= b.max THEN {Returns(Millisecond(b.max))}
    ELSE WithJitter(b, ExponentialBase(b, retry))

ConstantBase(b) == Min(b.min, b.max)

ConstantNext_NoZeroCase(b, retry) == WithJitter(b, ConstantBase(b))
ConstantNext(b, retry) ==
    IF retry <= 0 THEN {Returns(Millisecond(0))}
    ELSE WithJitter(b, ConstantBase(b))

LinearBase_Unclamped(b, retry) == b.min * retry
LinearBase(b, retry) == Min(b.min * retry, b.max)

LinearNext(b, retry) ==
    IF retry <= 0 THEN {Returns(Millisecond(0))}
    ELSE WithJitter(b, LinearBase(b, retry))

\* b.Next(retry) through the Backoff interface: every outcome it can have.
BackoffNext(b, retry) ==
    CASE b.kind = "static" -> StaticNext(b, retry)
      [] b.kind = "exponential" -> ExponentialNext(b, retry)
      [] b.kind = "constant" -> ConstantNext(b, retry)
      [] b.kind = "linear" -> LinearNext(b, retry)

\* The arguments a strategy is constructed with.
MinIntervals == 0..MaxMinInterval
MaxIntervals == 0..MaxMaxInterval
Jitters == 0..MaxJitter
Factors == 0..MaxFactor
BackoffArgs(kind, d, f, minv, maxv, jitter) ==
    [kind |-> kind, d |-> d, factor |-> f, min |-> minv, max |-> maxv,
     jitter |-> jitter]

NoStrategy ==
    /\ boArgs = NoBackoff
    /\ bo = NoBackoff
    /\ bn = -1
    /\ bout = Returns(0)

Constructs(args, b) ==
    /\ bo = NoBackoff
    /\ boArgs' = args
    /\ bo' = b
    /\ UNCHANGED <<bn, bout>>
    /\ UNCHANGED notBackoff

MakeStatic ==
    \E d \in MaxIntervals :
        Constructs(BackoffArgs("static", d, 0, 0, 0, 0), StaticBackoff(d))

MakeExponential ==
    \E f \in Factors, minv \in MinIntervals, maxv \in MaxIntervals, j \in Jitters :
        Constructs(BackoffArgs("exponential", 0, f, minv, maxv, j),
                   NewExponentialBackoff(f, minv, maxv, j))

MakeConstant ==
    \E minv \in MinIntervals, maxv \in MaxIntervals, j \in Jitters :
        Constructs(BackoffArgs("constant", 0, 0, minv, maxv, j),
                   NewConstantBackoff(minv, maxv, j))

MakeLinear ==
    \E minv \in MinIntervals, maxv \in MaxIntervals, j \in Jitters :
        Constructs(BackoffArgs("linear", 0, 0, minv, maxv, j),
                   NewLinearBackoff(minv, maxv, j))

\* A caller asks the strategy for the delay of some retry.
CallNext ==
    /\ bo # NoBackoff
    /\ \E retry \in 0..MaxRetry :
           /\ bn' = retry
           /\ bout' \in BackoffNext(bo, retry)
    /\ UNCHANGED <<boArgs, bo>>
    /\ UNCHANGED notBackoff

BackoffStep ==
    \/ MakeStatic
    \/ MakeExponential
    \/ MakeConstant
    \/ MakeLinear
    \/ CallNext

\* ================================================================ retry.Do
\* errors.As(err, target) for a target of the named type: some value in
\* err's Unwrap chain has that dynamic type.
As(err, type) == ~err.nil /\ \E c \in err.chain : c[1] = type

\* RetryableError{err: e}, the struct value: it unwraps to e.
RetryableErrorValue(e) ==
    [nil |-> FALSE,
     msg |-> <<"retry">> \o (IF e.nil THEN <<"<nil>">> ELSE e.msg),
     chain |-> {<<"RetryableError", 0>>} \cup e.chain]

\* &RetryableError{err: e}, the pointer: its dynamic type is *RetryableError.
RetryableErrorPointer(e) ==
    [nil |-> FALSE,
     msg |-> <<"retry">> \o (IF e.nil THEN <<"<nil>">> ELSE e.msg),
     chain |-> {<<"*RetryableError", 0>>} \cup e.chain]

MarkRetryable(err) == IF err.nil THEN Nil ELSE RetryableErrorPointer(err)

\* Do's test of fn's error: errors.As(err, &rErr) with rErr a RetryableError.
IsRetryable_Any(err) == ~err.nil
IsRetryable(err) == As(err, "RetryableError")

\* An error of the operation's own.
OpError == NewError("operation failed", "opError", 0)

\* What fn can return on a call.
FnReturns == {Nil, OpError, RetryableErrorValue(Nil), MarkRetryable(OpError)}

\* The options Do is called with: the defaults, or WithMaxAttempts and
\* WithBackoff.
DefaultMaxRetries == 3
DefaultBackoff == StaticBackoff(0)
MaxRetriesOptions == {DefaultMaxRetries} \cup (0..MaxAttempts)
BackoffOptions ==
    {DefaultBackoff,
     StaticBackoff(UnitsPerMs),
     NewConstantBackoff(UnitsPerMs, 2 * UnitsPerMs, 2 * UnitsPerMs),
     NewLinearBackoff(UnitsPerMs, 2 * UnitsPerMs, 0)}

NeverCancelled == [pc |-> "never", i |-> 0, calls |-> 0]

NoRetry ==
    /\ dpc = "idle"
    /\ dMax = DefaultMaxRetries
    /\ dBackoff = DefaultBackoff
    /\ di = 0
    /\ dTimer = "none"
    /\ dDelay = 0
    /\ dResult = Nil
    /\ dCalls = 0
    /\ dWaits = 0
    /\ dRets = {}
    /\ dCancelAt = NeverCancelled

\* The caller cancels the context it passed to Do.
DoCancel ==
    /\ ~ctxDone
    /\ ctxDone' = TRUE
    /\ dCancelAt' = [pc |-> dpc, i |-> di, calls |-> dCalls]
    /\ UNCHANGED <<dpc, dMax, dBackoff, di, dTimer, dDelay, dResult, dCalls,
                   dWaits, dRets>>
    /\ UNCHANGED notRetry

\* Do applies the options and enters the loop.
DoBegin ==
    /\ dpc = "idle"
    /\ \E m \in MaxRetriesOptions, b \in BackoffOptions :
           /\ dMax' = m
           /\ dBackoff' = b
    /\ di' = 0
    /\ dpc' = "top"
    /\ UNCHANGED <<ctxDone, dTimer, dDelay, dResult, dCalls, dWaits, dRets, dCancelAt>>
    /\ UNCHANGED notRetry

DoReturns(err) ==
    /\ dpc' = "returned"
    /\ dResult' = err

\* The loop condition i < o.maxRetries.
LoopCondition_Inclusive(i, maxRetries) == i <= maxRetries
LoopCondition(i, maxRetries) == i < maxRetries

\* The loop condition fails: return ErrRetryLimitReached.
DoLimitReached ==
    /\ dpc = "top"
    /\ ~LoopCondition(di, dMax)
    /\ DoReturns(ErrRetryLimitReached)
    /\ UNCHANGED <<ctxDone, dMax, dBackoff, di, dTimer, dDelay, dCalls, dWaits,
                   dRets, dCancelAt>>
    /\ UNCHANGED notRetry

\* The select at the top of the loop body: ctx.Done() is ready.
TopCtxReady_Never == FALSE
TopCtxReady == ctxDone

DoTopCancelled ==
    /\ dpc = "top"
    /\ LoopCondition(di, dMax)
    /\ TopCtxReady
    /\ DoReturns(Canceled)
    /\ UNCHANGED <<ctxDone, dMax, dBackoff, di, dTimer, dDelay, dCalls, dWaits,
                   dRets, dCancelAt>>
    /\ UNCHANGED notRetry

\* The default case: invoke fn; return on nil and on an error that is not
\* retryable, else create the timer for backoff.Next(i).
DoAttempt ==
    /\ dpc = "top"
    /\ LoopCondition(di, dMax)
    /\ ~TopCtxReady
    /\ \E err \in FnReturns :
           /\ dCalls' = dCalls + 1
           /\ dRets' = dRets \cup {err}
           /\ IF err.nil \/ ~IsRetryable(err)
              THEN /\ DoReturns(err)
                   /\ UNCHANGED <<dTimer, dDelay, dWaits>>
              ELSE \E r \in BackoffNext(dBackoff, di) :
                       IF r.panic
                       THEN /\ dpc' = "panicked"
                            /\ UNCHANGED <<dTimer, dDelay, dWaits, dResult>>
                       ELSE /\ dpc' = "waiting"
                            /\ dTimer' = "armed"
                            /\ dDelay' = r.d
                            /\ dWaits' = dWaits + 1
                            /\ UNCHANGED dResult
    /\ UNCHANGED <<ctxDone, dMax, dBackoff, di, dCancelAt>>
    /\ UNCHANGED notRetry

\* The backoff elapses.
DoTimerFires ==
    /\ dpc = "waiting"
    /\ dTimer = "armed"
    /\ dTimer' = "fired"
    /\ UNCHANGED <<ctxDone, dpc, dMax, dBackoff, di, dDelay, dResult, dCalls,
                   dWaits, dRets, dCancelAt>>
    /\ UNCHANGED notRetry

\* The select on the timer takes ctx.Done(): return ctx.Err().
DoWaitCancelled ==
    /\ dpc = "waiting"
    /\ ctxDone
    /\ dTimer' = "stopped"
    /\ DoReturns(Canceled)
    /\ UNCHANGED <<ctxDone, dMax, dBackoff, di, dDelay, dCalls, dWaits, dRets,
                   dCancelAt>>
    /\ UNCHANGED notRetry

\* The select on the timer takes timer.C: continue with i+1.
DoWaitElapsed ==
    /\ dpc = "waiting"
    /\ dTimer = "fired"
    /\ dTimer' = "stopped"
    /\ di' = di + 1
    /\ dpc' = "top"
    /\ UNCHANGED <<ctxDone, dMax, dBackoff, dDelay, dResult, dCalls, dWaits,
                   dRets, dCancelAt>>
    /\ UNCHANGED notRetry

RetryNext ==
    \/ DoCancel
    \/ DoBegin
    \/ DoLimitReached
    \/ DoTopCancelled
    \/ DoAttempt
    \/ DoTimerFires
    \/ DoWaitCancelled
    \/ DoWaitElapsed

\* ============================================================ roundTripper
NoResponse == 0
\* A *url.Error of t.client.Do; the text is what the regular expressions
\* of RoundTrip look at, cause is the dynamic type of urlErr.Err.
UrlError(text, cause) ==
    [nil |-> FALSE, msg |-> <<text>>,
     chain |-> {<<"*url.Error", 0>>, <<cause, 0>>}]
RedirectsError == UrlError("stopped after 10 redirects", "*errors.errorString")
SchemeError == UrlError("unsupported protocol scheme", "*errors.errorString")
AuthorityError == UrlError("certificate signed by unknown authority", "x509.UnknownAuthorityError")
DialError == UrlError("connection refused", "*net.OpError")

\* redirectsErrRegExp and schemeErrRegExp matched against urlErr.Error().
MatchesRedirects(err) == err.msg = <<"stopped after 10 redirects">>
MatchesScheme(err) == err.msg = <<"unsupported protocol scheme">>

\* The url errors RoundTrip returns without another attempt.
NotRetried(err) ==
    /\ As(err, "*url.Error")
    /\ \/ MatchesRedirects(err)
       \/ MatchesScheme(err)
       \/ As(err, "x509.UnknownAuthorityError")

\* What t.client.Do(req) returns: an error and no response, or a response
\* with a status and possibly a Retry-After header that parses.
DoFails(err) == [err |-> err, status |-> NoResponse, retryAfter |-> FALSE]
DoResponds(status, retryAfter) == [err |-> Nil, status |-> status, retryAfter |-> retryAfter]
Statuses == {200, 404, 429, 500, 501, 502, 503}
ClientDoReturns ==
    {DoFails(e) : e \in {RedirectsError, SchemeError, AuthorityError, DialError}}
    \cup {DoResponds(st, FALSE) : st \in Statuses}
    \cup {DoResponds(st, TRUE) : st \in {429, 503}}

\* The statuses after which RoundTrip sleeps and continues.
RetryableStatus(status) ==
    \/ status = 429
    \/ status = 503
    \/ status >= 500 /\ status # 503 /\ status # 501

\* What NewClient stores in the roundTripper of cfg.retryMaxAttempts: the
\* field maxAttempts is not set and keeps its zero value.
TripperMaxAttempts(cfgMax) == 0

\* The values returned by RoundTrip.
Returned(res, err) == [res |-> res, err |-> err]
\* return res, nil at the end of RoundTrip.
FinalReturn(res) == Returned(res, Nil)

NoClient ==
    /\ rtPc = "none"
    /\ rtCfgMax = 0
    /\ rtMax = 0
    /\ rtBackoff = NoBackoff
    /\ rtI = 0
    /\ rtRes = NoResponse
    /\ rtRet = Returned(NoResponse, Nil)
    /\ rtSends = 0
    /\ rtOuts = {}

\* NewClient(WithRetries(WithMaxAttempts(n), WithBackoff(b))), or NewClient
\* without WithRetries or WithBackoff: the backoff stays nil.
NewClient ==
    /\ rtPc = "none"
    /\ \E n \in 0..MaxAttempts, b \in {NoBackoff} \cup BackoffOptions :
           /\ rtCfgMax' = n
           /\ rtMax' = TripperMaxAttempts(n)
           /\ rtBackoff' = b
    /\ rtPc' = "idle"
    /\ UNCHANGED <<rtI, rtRes, rtRet, rtSends, rtOuts>>
    /\ UNCHANGED notRt

\* RoundTrip is called; reading the request body can fail.
RoundTripBegin ==
    /\ rtPc = "idle"
    /\ rtI' = 0
    /\ \/ /\ rtPc' = "loop"
          /\ UNCHANGED rtRet
       \/ /\ rtPc' = "returned"
          /\ rtRet' = Returned(NoResponse, NewError("read body", "readBodyErr", 0))
    /\ UNCHANGED <<rtCfgMax, rtMax, rtBackoff, rtRes, rtSends, rtOuts>>
    /\ UNCHANGED notRt

\* time.Sleep(t.backoff.Next(i)): a nil backoff, and a Next that panics,
\* make RoundTrip panic.
SleepsBackoff ==
    IF rtBackoff = NoBackoff \/ Panics \in BackoffNext(rtBackoff, rtI)
    THEN rtPc' = "panicked"
    ELSE rtPc' = "sleeping"

\* One iteration of the loop: close the previous response, send, and
\* decide.
RoundTripAttempt ==
    /\ rtPc = "loop"
    /\ rtI <= rtMax
    /\ \/ /\ rtRes # NoResponse
          /\ rtPc' = "returned"
          /\ rtRet' = Returned(NoResponse, NewError("failed to close response body", "closeErr", 0))
          /\ UNCHANGED <<rtRes, rtSends, rtOuts, rtI>>
       \/ \E out \in ClientDoReturns :
              /\ rtSends' = rtSends + 1
              /\ rtOuts' = rtOuts \cup {out}
              /\ rtRes' = out.status
              /\ IF ~out.err.nil
                 THEN IF NotRetried(out.err)
                      THEN /\ rtPc' = "returned"
                           /\ rtRet' = Returned(NoResponse, out.err)
                           /\ UNCHANGED rtI
                      ELSE /\ SleepsBackoff
                           /\ UNCHANGED <<rtRet, rtI>>
                 ELSE IF RetryableStatus(out.status)
                      THEN /\ IF out.retryAfter THEN rtPc' = "sleeping" ELSE SleepsBackoff
                           /\ UNCHANGED <<rtRet, rtI>>
                      ELSE /\ rtI' = rtI + 1
                           /\ UNCHANGED <<rtPc, rtRet>>
    /\ UNCHANGED <<rtCfgMax, rtMax, rtBackoff>>
    /\ UNCHANGED notRt

\* The sleep ends: continue with i+1.
RoundTripWakes ==
    /\ rtPc = "sleeping"
    /\ rtPc' = "loop"
    /\ rtI' = rtI + 1
    /\ UNCHANGED <<rtCfgMax, rtMax, rtBackoff, rtRes, rtRet, rtSends, rtOuts>>
    /\ UNCHANGED notRt

\* The loop ends: return res, nil.
RoundTripReturns ==
    /\ rtPc = "loop"
    /\ ~(rtI <= rtMax)
    /\ rtPc' = "returned"
    /\ rtRet' = FinalReturn(rtRes)
    /\ UNCHANGED <<rtCfgMax, rtMax, rtBackoff, rtI, rtRes, rtSends, rtOuts>>
    /\ UNCHANGED notRt

RoundTripNext ==
    \/ NewClient
    \/ RoundTripBegin
    \/ RoundTripAttempt
    \/ RoundTripWakes
    \/ RoundTripReturns

\* ================================================================= Evolver
\* loadMutations: the .sql entries in name order, each with the version
\* i + 1 of its position among all the entries.
RECURSIVE LoadFrom(_, _)
LoadFrom(entries, i) ==
    IF i > Len(entries) THEN <<>>
    ELSE (IF entries[i] THEN <<i>> ELSE <<>>) \o LoadFrom(entries, i + 1)
LoadMutations(entries) == LoadFrom(entries, 1)

\* Skip already applied mutations.
AlreadyApplied_Below(version, stored) == stored < 0 \/ version < stored
AlreadyApplied(version, stored) == stored < 0 \/ version <= stored

NoEvolver ==
    /\ evPc = "none"
    /\ evEntries = <<>>
    /\ evTable = "absent"
    /\ evStored = 0
    /\ evRead = 0
    /\ evIdx = 0
    /\ evTx = <<>>
    /\ evLast = "none"
    /\ evRuns = 0
    /\ evCommitted = <<>>
    /\ evBefore = [stored |-> 0, committed |-> <<>>]

\* NewEvolver over a fresh database and a filesystem of mutations.
NewEvolver ==
    /\ evPc = "none"
    /\ evPc' = "idle"
    /\ \E k \in 0..MaxFiles : evEntries' \in [1..k -> BOOLEAN]
    /\ UNCHANGED <<evTable, evStored, evRead, evIdx, evTx, evLast, evRuns,
                   evCommitted, evBefore>>
    /\ UNCHANGED notEv

\* A run ends with an error: the deferred Rollback discards the transaction.
MutateFails ==
    /\ evPc' = "idle"
    /\ evTx' = <<>>
    /\ evLast' = "failed"

\* MutateSchema up to BeginTx: ensureSchemaVersionTable, the read of the
\* stored version, loadMutations.  Each of them can fail; the creation of
\* the table can fail after the table and before the row.
MutateBegin ==
    /\ evPc = "idle"
    /\ evRuns < MaxRuns
    /\ evRuns' = evRuns + 1
    /\ evBefore' = [stored |-> evStored, committed |-> evCommitted]
    /\ \/ /\ evTable = "absent"
          /\ evTable' \in {"absent", "norow"}
          /\ MutateFails
          /\ UNCHANGED <<evRead, evIdx>>
       \/ /\ evTable = "norow"
          /\ MutateFails
          /\ UNCHANGED <<evTable, evRead, evIdx>>
       \/ /\ evTable # "norow"
          /\ evTable' = "ready"
          /\ \/ /\ MutateFails
                /\ UNCHANGED <<evRead, evIdx>>
             \/ /\ evRead' = evStored
                /\ evIdx' = 1
                /\ evPc' = "inTx"
                /\ UNCHANGED <<evTx, evLast>>
    /\ UNCHANGED <<evEntries, evStored, evCommitted>>
    /\ UNCHANGED notEv

\* One iteration of the range over mutations: skip, or execute the changes
\* and the update of schema_version in the transaction, or fail.
MutateStep ==
    /\ evPc = "inTx"
    /\ evIdx <= Len(LoadMutations(evEntries))
    /\ LET m == LoadMutations(evEntries)[evIdx] IN
       IF AlreadyApplied(m, evRead)
       THEN /\ evIdx' = evIdx + 1
            /\ UNCHANGED <<evPc, evTx, evLast>>
       ELSE \/ /\ evTx' = Append(evTx, m)
               /\ evIdx' = evIdx + 1
               /\ UNCHANGED <<evPc, evLast>>
            \/ /\ MutateFails
               /\ UNCHANGED evIdx
    /\ UNCHANGED <<evEntries, evTable, evStored, evRead, evRuns, evCommitted, evBefore>>
    /\ UNCHANGED notEv

\* tx.Commit(): the changes and the last version written become durable,
\* or the commit fails.
MutateCommit ==
    /\ evPc = "inTx"
    /\ evIdx > Len(LoadMutations(evEntries))
    /\ \/ /\ evCommitted' = evCommitted \o evTx
          /\ evStored' = IF evTx = <<>> THEN evStored ELSE evTx[Len(evTx)]
          /\ evPc' = "idle"
          /\ evTx' = <<>>
          /\ evLast' = "ok"
       \/ /\ MutateFails
          /\ UNCHANGED <<evStored, evCommitted>>
    /\ UNCHANGED <<evEntries, evTable, evRead, evIdx, evRuns, evBefore>>
    /\ UNCHANGED notEv

EvolverNext ==
    \/ NewEvolver
    \/ MutateBegin
    \/ MutateStep
    \/ MutateCommit

\* =============================================================== ErrorHTTP
\* The errkit sentinels the responder looks for.
ErrAlreadyExists == NewError("already exists", "ErrAlreadyExists", 0)
ErrNotFound == NewError("not found", "ErrNotFound", 0)
ErrUnauthenticated == NewError("authentication failed", "ErrUnauthenticated", 0)
ErrUnauthorized == NewError("permission denied", "ErrUnauthorized", 0)
ErrInvalidArgument == NewError("invalid argument", "ErrInvalidArgument", 0)
ErrUnavailable == NewError("temporarily unavailable", "ErrUnavailable", 0)
ErrValidation == NewError("validation failed", "ErrValidation", 0)

\* The switch of the default responder.
MappedStatus(err) ==
    CASE Is(err, ErrAlreadyExists) -> 409
      [] Is(err, ErrNotFound) -> 404
      [] Is(err, ErrUnauthenticated) -> 403
      [] Is(err, ErrUnauthorized) -> 401
      [] Is(err, ErrInvalidArgument) -> 400
      [] Is(err, ErrUnavailable) -> 503
      [] OTHER -> 500

\* The options: WithStatus(code), WithErrorReport().
WithStatus(code) == [kind |-> "status", code |-> code]
WithErrorReport == [kind |-> "report", code |-> 0]
ResponseOptions == {WithStatus(201), WithStatus(404), WithErrorReport}

RECURSIVE ApplyOptions(_, _)
\* The loop of NewResponseOptions over the options: the statusCode field.
ApplyOptions(statusCode, options) ==
    IF options = <<>> THEN statusCode
    ELSE ApplyOptions(IF Head(options).kind = "status" THEN Head(options).code
                      ELSE statusCode,
                      Tail(options))

\* NewResponseOptions: statusCode starts as http.StatusOK.
StatusOK == 200
NewResponseOptions(options) == ApplyOptions(StatusOK, options)

\* errHTTPResponder: the mapped status, replaced by o.statusCode when that
\* is not zero.
ErrHTTPResponder(err, options) ==
    LET o == NewResponseOptions(options) IN
    IF o # 0 THEN o ELSE MappedStatus(err)

\* The errors handlers pass to ErrorHTTP.
HandlerErrors ==
    LET sentinels == {ErrAlreadyExists, ErrNotFound, ErrUnauthenticated, ErrUnauthorized,
                      ErrInvalidArgument, ErrUnavailable, ErrValidation}
    IN  sentinels \cup {Wrapf(<<"handler:">>, e) : e \in sentinels} \cup {OpError}

NoResponseYet ==
    /\ ehPc = "idle"
    /\ ehErr = Nil
    /\ ehOptions = <<>>
    /\ ehStatus = 0

\* ErrorHTTP(w, r, err, options...) with the default responder.
ErrorHTTP ==
    /\ \E err \in HandlerErrors, k \in 0..MaxOptions :
           \E options \in [1..k -> ResponseOptions] :
               /\ ehErr' = err
               /\ ehOptions' = options
               /\ ehStatus' = ErrHTTPResponder(err, options)
    /\ ehPc' = "written"
    /\ UNCHANGED notEh

ErrorHTTPNext == ErrorHTTP

\* ========================================================== specifications
\* Every specification starts from the constructed objects and a live ctx.
Constructed ==
    /\ ctxDone = FALSE
    /\ NewServer
    /\ NewListenerGRPC
    /\ NewListenerHTTP
    /\ rhist = NoRegistrations
    /\ NoRetry
    /\ NoStrategy
    /\ NoClient
    /\ NoEvolver
    /\ NoResponseYet

\* Server.Serve over any registration of the listener implementations.
Init ==
    /\ hAddrEmpty = FALSE
    /\ Constructed

Spec == Init /\ [][ServerNext]_vars

\* The goroutines of Server.Serve are scheduled; the caller's cancellation
\* and a listener's unprompted return are not obliged to happen.
FairSpec ==
    /\ Spec
    /\ WF_vars(ServeBegin)
    /\ \A n \in Names : WF_vars(ServeLaunch(n))
    /\ \A n \in Names : WF_vars(ListenerStops(n))
    /\ WF_vars(ServeReturn)

\* ListenerGRPC.Serve called directly by its owner.
GrpcInit ==
    /\ hAddrEmpty = FALSE
    /\ Constructed

GrpcSpec == GrpcInit /\ [][GrpcNext]_vars

\* The goroutines of ListenerGRPC.Serve are scheduled and the shutdown timer
\* runs; cancellation, accept failures and the clients' RPCs are not obliged
\* to happen.
GrpcFairSpec ==
    /\ GrpcSpec
    /\ WF_vars(GrpcLoopStart)
    /\ WF_vars(GrpcLoopStopped)
    /\ WF_vars(HsObservesCancel)
    /\ WF_vars(GracefulStopBegins)
    /\ WF_vars(GracefulStopCompletes)
    /\ WF_vars(GrpcDeadlineFires)
    /\ WF_vars(HsGracefulStopWins \/ HsDeadlineWins)
    /\ WF_vars(GrpcStopRuns)
    /\ WF_vars(GrpcServeEnds)

\* ListenerHTTP.Serve called directly by its owner, for any address.
HttpInit ==
    /\ hAddrEmpty \in BOOLEAN
    /\ Constructed

HttpSpec == HttpInit /\ [][HttpNext]_vars

\* The goroutines of ListenerHTTP.Serve are scheduled, the shutdown timer
\* runs; cancellation, transport failures and the clients' requests are not
\* obliged to happen.
HttpFairSpec ==
    /\ HttpSpec
    /\ WF_vars(HttpLoopStart)
    /\ WF_vars(HttpLoopClosed)
    /\ WF_vars(HttpHsObservesCancel)
    /\ WF_vars(HttpShutdownBegins)
    /\ WF_vars(HttpDeadlineFires)
    /\ WF_vars(HttpShutdownDrained \/ HttpShutdownDeadline)
    /\ WF_vars(HttpServeEnds)

\* ------------------------------------------------------- Server: properties
Running == {n \in Names : tpc[n] = "running"}
Failed == {n \in Names : tpc[n] = "done" /\ Is(terr[n], ListenerError)}

\* C1: when a listener returned the transport failure E, the value returned
\* by Server.Serve is non-nil and errors.Is(result, E) holds.
C1_FailurePropagated ==
    spc = "returned" =>
        \A n \in Failed : ~result.nil /\ Is(result, ListenerError)

AllContextDriven ==
    /\ Registered # {}
    /\ \A n \in Registered : registry[n] \in ContextDriven

\* C2: with N >= 1 listeners that all block until their context is done and
\* then return nil or ErrGracefullyShutdown, cancelling the context of a
\* running Server.Serve leads to Serve having returned nil.
C2_GracefulShutdownReturnsNil ==
    (spc = "running" /\ AllContextDriven /\ ctxDone)
        ~> (spc = "returned" /\ result = Nil)
C2_Witness ==
    /\ spc = "returned" /\ result = Nil /\ ctxDone
    /\ Launched = Names
    /\ \A n \in Launched : tlis[n] \in ContextDriven
    /\ \E n \in Launched : terr[n] = ErrGracefullyShutdown

\* C3: in every state where Server.Serve has returned, every listener task
\* it launched has returned.
C3_NoReturnBeforeJoin ==
    spc = "returned" => Running = {}
C3_Witness ==
    /\ spc = "returned"
    /\ Failed # {}
    /\ \E n \in Launched : terr[n].nil
    /\ Launched = Names

C5_NoCancelOnListenerError ==
    (spc = "running" /\ Running # {} /\ ListenerCtxDone) => ctxDone

\* C5 amended: listenerCtx is cancelled only by the caller or by a listener
\* that returned a non-nil error; a listener that returned nil cancels
\* nothing, and Serve waits for all of them (C3).
C5_CancelOnlyOnErrorOrCaller ==
    (spc = "running" /\ Running # {} /\ ListenerCtxDone) =>
        (ctxDone \/ \E n \in Launched : tpc[n] = "done" /\ ~terr[n].nil)
C5_Witness ==
    /\ spc = "running" /\ ~ctxDone
    /\ Running # {}
    /\ ListenerCtxDone
    /\ Failed # {}

\* ------------------------------------------------- ListenerGRPC: properties
GrpcServeEnded == gpc \in {"returned", "panicked"}

\* C6 as stated: when the shutdown deadline won the race, Serve ends by
\* returning a non-nil error to its caller.
C6_DeadlineReturnsError ==
    (GrpcServeEnded /\ hsBranch = "deadline") =>
        (gpc = "returned" /\ ~gResult.nil)

\* C6 amended: when the shutdown deadline won the race, Serve panics with
\* the shutdown failure, an error matching ErrGracefullyShutdown; only when
\* the serve loop had failed before does it return, and then the non-nil
\* error it returns wraps the transport failure.
C6_DeadlinePanicsOrReturnsServeFailure ==
    (GrpcServeEnded /\ hsBranch = "deadline") =>
        \/ /\ gpc = "panicked"
           /\ gResult = hsErr
           /\ Is(gResult, ErrGracefullyShutdown)
        \/ /\ gpc = "returned"
           /\ ~slErr.nil
           /\ Is(gResult, slErr)
           /\ ~Is(gResult, ErrGracefullyShutdown)
C6_Witness ==
    /\ gpc = "panicked"
    /\ hsBranch = "deadline"
    /\ ctxDone
    /\ gsPc # "done"

\* C7: once handleShutdown has observed cancellation it returns, and it has
\* returned either nil after GracefulStop completed, or an error after the
\* deadline fired and Stop was issued; also when GracefulStop never completes.
C7_HandleShutdownTerminates ==
    /\ (hsPc = "racing") ~> (hsPc = "returned")
    /\ [](hsPc = "returned" =>
            \/ hsBranch = "done" /\ gsPc = "done" /\ hsErr = Nil
            \/ hsBranch = "deadline" /\ gTimer = "fired" /\ stopPc # "none"
               /\ ~hsErr.nil)
C7_Witness ==
    /\ hsPc = "returned"
    /\ hsBranch = "deadline"
    /\ gsPc = "draining"
    /\ grpcRPCs > 0
    /\ stopPc = "spawned"

\* C10: when the gRPC serve loop failed and the caller never cancels the
\* context, Serve returns a non-nil error.
C10_ServeFailureSurfaces ==
    (~slErr.nil /\ ~ctxDone) ~> (ctxDone \/ (gpc = "returned" /\ ~gResult.nil))

\* ------------------------------------------------- ListenerHTTP: properties
\* C8: when Shutdown ran into the shutdown deadline, the listener has
\* aborted the transport, so that no connection is left with a request in
\* flight, and handleShutdown reports a shutdown failure.
C8_DeadlineForcesAbort ==
    (hhsPc = "returned" /\ hhsBranch = "deadline") =>
        (httpConns = 0 /\ Is(hhsErr, ErrGracefullyShutdown))

\* C9: when the accept/serve loop failed, Serve returns a non-nil error,
\* also when the caller never cancels the context.
C9_ServeFailureSurfaces ==
    (~hslErr.nil) ~> (hpc = "returned" /\ ~hResult.nil)
C9_Witness ==
    /\ hpc = "returned"
    /\ ~hslErr.nil
    /\ ~ctxDone
    /\ ~hResult.nil

\* retry.Do called with any options, over any operation.
RetryInit ==
    /\ hAddrEmpty = FALSE
    /\ Constructed

RetrySpec == RetryInit /\ [][RetryNext]_vars

\* The backoff strategies, for any construction and any Next call.
BackoffInit ==
    /\ hAddrEmpty = FALSE
    /\ Constructed

BackoffSpec == BackoffInit /\ [][BackoffStep]_vars

\* C11 as stated: when the context was cancelled and Shutdown completed
\* before the deadline, the value Serve returned matches
\* ErrGracefullyShutdown.
C11_CleanStopReturnsSentinel ==
    (hpc = "returned" /\ ctxDone /\ hhsBranch = "drained") =>
        Is(hResult, ErrGracefullyShutdown)

\* C11 amended: when the context was cancelled and Shutdown completed before
\* the deadline, Serve returned nil; only when the serve loop had failed
\* does it return an error, and that one matches ErrGracefullyShutdown.
C11_CleanStopReturnsNil ==
    (hpc = "returned" /\ ctxDone /\ hhsBranch = "drained") =>
        IF hslErr.nil THEN hResult = Nil ELSE Is(hResult, ErrGracefullyShutdown)
C11_Witness ==
    /\ hpc = "returned"
    /\ ctxDone
    /\ hhsBranch = "drained"
    /\ hTimer = "cancelled"
    /\ hslErr.nil
    /\ hResult = Nil

\* C12: the error Serve returned because the accept/serve loop failed, the
\* caller's context never cancelled, does not match ErrGracefullyShutdown.
C12_TransportFailureIsNotSentinel ==
    (hpc = "returned" /\ ~hslErr.nil /\ ~ctxDone) =>
        (~hResult.nil /\ ~Is(hResult, ErrGracefullyShutdown))

\* C20: when Shutdown ran into the shutdown deadline, the error returned by
\* handleShutdown, and then by Serve, matches context.DeadlineExceeded.
C20_ShutdownFailureWrapsDeadline ==
    (hhsPc = "returned" /\ hhsBranch = "deadline") =>
        /\ Is(hhsErr, DeadlineExceeded)
        /\ (hpc = "returned" /\ hslErr.nil) => Is(hResult, DeadlineExceeded)

\* Do has ended: it returned or it panicked.
DoEnded == dpc \in {"returned", "panicked"}
\* ctx was cancelled before fn was invoked for the first time.
CancelledBeforeFirstAttempt == ctxDone /\ dCancelAt.calls = 0

\* C13 as stated: when every call of fn returned an error that is not a
\* RetryableError, Do, called with maxAttempts >= 1 and any backoff, has
\* invoked fn exactly once and returned that same error.
C13_NonRetryableOnce ==
    (dpc = "returned" /\ dMax >= 1 /\ dRets \subseteq {OpError}) =>
        (dCalls = 1 /\ dResult = OpError)

\* C13 amended: the same, for a context that is not cancelled before the
\* first attempt; with a context cancelled before it, Do returns the
\* context's error and fn is never invoked.
C13_NonRetryableOnceUnlessCancelled ==
    (dpc = "returned" /\ dMax >= 1 /\ dRets \subseteq {OpError}) =>
        IF CancelledBeforeFirstAttempt
        THEN dCalls = 0 /\ dResult = Canceled
        ELSE dCalls = 1 /\ dResult = OpError
C13_Witness ==
    /\ dpc = "returned"
    /\ dMax = MaxAttempts
    /\ dBackoff.kind = "linear"
    /\ dRets = {OpError}
    /\ dCalls = 1
    /\ dResult = OpError

\* The errors an operation reports as retryable: a RetryableError value, or
\* what MarkRetryable returns.
RetryableErrors == {RetryableErrorValue(Nil), MarkRetryable(OpError)}

\* C14: when every call of fn returned a retryable error and the context was
\* never cancelled, Do, called with maxAttempts >= 1, ends by returning
\* ErrRetryLimitReached after exactly maxAttempts invocations.
C14_RetryableExhaustsAttempts ==
    (DoEnded /\ ~ctxDone /\ dMax >= 1 /\ dRets \subseteq RetryableErrors) =>
        (dpc = "returned" /\ dCalls = dMax /\ dResult = ErrRetryLimitReached)

\* C15: when the context was cancelled while Do waited out the backoff
\* between two attempts, fn is not invoked after the cancellation and Do
\* returns the context's error.
C15_CancelDuringBackoff ==
    (dCancelAt.pc = "waiting" /\ dCancelAt.i + 1 < dMax) =>
        /\ dCalls = dCancelAt.calls
        /\ dpc # "panicked"
        /\ dpc = "returned" => dResult = Canceled
C15_Witness ==
    /\ dpc = "returned"
    /\ dCancelAt.pc = "waiting"
    /\ dCancelAt.i + 1 < dMax
    /\ di = dCancelAt.i + 1
    /\ dTimer = "stopped"
    /\ dResult = Canceled

\* C16: Do never returns to its caller the error MarkRetryable produced
\* while attempts remain.
C16_MarkedErrorIsRetried ==
    ~(dpc = "returned" /\ dResult = MarkRetryable(OpError) /\ dCalls < dMax)

\* C17 as stated: Next(0) returns a zero duration, for every strategy and
\* every configuration.
C17_NextZeroIsZero ==
    bn = 0 => bout = Returns(0)

\* C17 amended: Next(0) returns a zero duration for ConstantBackoff,
\* LinearBackoff and ExponentialBackoff; StaticBackoff(d).Next(0) returns d.
C17_NextZeroIsZeroExceptStatic ==
    bn = 0 => bout = Returns(IF bo.kind = "static" THEN boArgs.d ELSE 0)
C17_Witness ==
    /\ bn = 0
    /\ bo.kind = "constant"
    /\ boArgs.min >= UnitsPerMs
    /\ boArgs.jitter = 0
    /\ bout = Returns(0)

\* C18 as stated: for ExponentialBackoff, every configuration and every
\* n >= 1, base(n) < maxInterval implies base(n) < base(n+1).
C18_ExponentialStrictlyIncreases ==
    (bo.kind = "exponential" /\ bn >= 1) =>
        (ExponentialBase(bo, bn) < bo.max =>
             ExponentialBase(bo, bn) < ExponentialBase(bo, bn + 1))

\* C18 amended: the same for the configurations with factor >= 2 and a
\* minimum interval of at least one millisecond.
C18_ExponentialStrictlyIncreasesFromFactorTwo ==
    (bo.kind = "exponential" /\ bn >= 1 /\ bo.factor >= 2 /\ bo.min >= 1) =>
        (ExponentialBase(bo, bn) < bo.max =>
             ExponentialBase(bo, bn) < ExponentialBase(bo, bn + 1))
C18_Witness ==
    /\ bo.kind = "exponential"
    /\ bn = 1
    /\ bo.factor = 2
    /\ ExponentialBase(bo, 1) < ExponentialBase(bo, 2)
    /\ ExponentialBase(bo, 2) < bo.max
    /\ ~bout.panic
    /\ bout.d >= Millisecond(ExponentialBase(bo, 1))

\* The configurations of C19: minInterval <= maxInterval, maxJitter >= 1ms
\* and, for exponential, factor >= 1.
C19_Configured ==
    /\ bo.kind \in {"constant", "linear", "exponential"}
    /\ boArgs.min <= boArgs.max
    /\ boArgs.jitter >= UnitsPerMs
    /\ bo.kind = "exponential" => boArgs.factor >= 1

\* C19 as stated: for these configurations every Next(n), n >= 1, lies in
\* [minInterval, maxInterval + maxJitter].
C19_NextWithinRange ==
    (C19_Configured /\ bn >= 1) =>
        /\ ~bout.panic
        /\ boArgs.min <= bout.d
        /\ bout.d <= boArgs.max + boArgs.jitter

\* C19 amended: for these configurations every Next(n), n >= 1, lies in
\* [minInterval cut down to whole milliseconds, maxInterval + maxJitter].
C19_NextWithinTruncatedRange ==
    (C19_Configured /\ bn >= 1) =>
        /\ ~bout.panic
        /\ boArgs.min - (boArgs.min % UnitsPerMs) <= bout.d
        /\ bout.d <= boArgs.max + boArgs.jitter
C19_Witness ==
    /\ C19_Configured
    /\ bo.kind = "linear"
    /\ bn = MaxRetry
    /\ boArgs.min % UnitsPerMs # 0
    /\ boArgs.min > UnitsPerMs
    /\ ~bout.panic
    /\ bout.d > boArgs.max

\* C21: while Server.Serve is in progress, its listeners launched and Serve
\* waiting on them, a RegisterListener call can take the registry lock and
\* complete: Serve does not hold the read lock then.
C21_RegisterDuringServe ==
    (spc = "running" /\ Registered \subseteq Launched) =>
        /\ mu = "unlocked"
        /\ ENABLED (\E n \in Names, l \in Listeners : RegisterListener(n, l))

\* Server.Serve over any registrations, each of them observed.
RegistrySpec == Init /\ [][RegistryNext]_vars

\* C22: once a listener registered under a name was replaced by another
\* registration under that name, the name maps to the listener written
\* last; Serve runs, for every name, the listener the registry holds and
\* never the replaced one; the registry has one entry for each name
\* registered.
C22_LastWriteWins ==
    /\ Registered = rhist.names
    /\ rhist.last # NoOverwrite => registry[rhist.last.name] = rhist.last.new
    /\ \A n \in Names :
           (spc = "running" /\ tpc[n] # "none") => tlis[n] = registry[n]
C22_Witness ==
    /\ rhist.last # NoOverwrite
    /\ rhist.last.old # rhist.last.new
    /\ spc = "running"
    /\ tpc[rhist.last.name] = "running"
    /\ tlis[rhist.last.name] = rhist.last.new
    /\ Cardinality(rhist.names) = NumNames

\* C23: Do never invokes fn more than maxAttempts times, and once a call of
\* fn returned nil (the k-th call being the first to), Do has returned nil
\* after exactly these k invocations and the k-1 waits before them.
C23_BoundedAttemptsAndEarlySuccess ==
    /\ dCalls <= dMax
    /\ Nil \in dRets =>
           /\ dpc = "returned"
           /\ dResult = Nil
           /\ dWaits = dCalls - 1
           /\ dTimer \in {"none", "stopped"}
C23_Witness ==
    /\ Nil \in dRets
    /\ dMax = DefaultMaxRetries
    /\ dCalls = dMax
    /\ dWaits = dMax - 1
    /\ dpc = "returned"
    /\ dResult = Nil

\* C24: when all maxAttempts invocations failed with retryable errors, Do
\* has waited at most maxAttempts - 1 times and is not waiting: no backoff
\* follows the last failed invocation.
C24_NoWaitAfterLastAttempt ==
    (dMax >= 1 /\ dCalls = dMax /\ dRets \subseteq {RetryableErrorValue(Nil)}) =>
        /\ dpc # "waiting"
        /\ dWaits <= dMax - 1

\* C25: for ConstantBackoff and LinearBackoff, every configuration and
\* every n >= 1, Next(n) returns base + j with base the clamped interval and
\* 0 <= j <= maxJitter; it does not panic.
C25_NextNeverFails ==
    (bo.kind \in {"constant", "linear"} /\ bn >= 1) =>
        /\ ~bout.panic
        /\ LET base == IF bo.kind = "linear"
                       THEN Min(boArgs.min * bn, boArgs.max)
                       ELSE Min(boArgs.min, boArgs.max)
           IN  bout.d - base \in 0..boArgs.jitter

\* C26: handleShutdown returns on the deadline whatever the GracefulStop
\* goroutine is doing, and Serve ends as soon as handleShutdown and the
\* serve loop returned: nothing waits for the GracefulStop goroutine.
C26_GracefulStopNotJoined ==
    /\ (hsPc = "racing" /\ gTimer = "fired") => ENABLED HsDeadlineWins
    /\ (gpc = "running" /\ hsPc = "returned" /\ slPc = "returned") =>
           ENABLED GrpcServeEnds
C26_Witness ==
    /\ hsPc = "returned"
    /\ hsBranch = "deadline"
    /\ gsPc = "draining"
    /\ gpc \in {"returned", "panicked"}

\* An http.Client built by NewClient with any options, one RoundTrip.
RoundTripSpec == Init /\ [][RoundTripNext]_vars

\* The results of t.client.Do after which a client with retries sends
\* again: a transport error that can be retried, a 429, a 503 or another
\* retryable 5xx.
RetryableOutcomes ==
    {out \in ClientDoReturns :
        IF out.err.nil THEN RetryableStatus(out.status) ELSE ~NotRetried(out.err)}

\* C27: when RoundTrip of a client built with WithMaxAttempts(n), n >= 1,
\* and a backoff has returned and every send ended in a retryable result,
\* the request was sent n + 1 times.
C27_ClientRetries ==
    (rtPc = "returned" /\ rtCfgMax >= 1 /\ rtBackoff # NoBackoff
       /\ rtSends >= 1 /\ rtOuts \subseteq RetryableOutcomes) =>
        rtSends = rtCfgMax + 1

\* C28: RoundTrip does not return a nil response together with a nil error.
C28_NeverNilNil ==
    rtPc = "returned" => ~(rtRet.res = NoResponse /\ rtRet.err.nil)

\* Any sequence of MutateSchema runs over one set of mutation files.
EvolverSpec == Init /\ [][EvolverNext]_vars

\* The versions of seq above stored, in order.
Above(seq, stored) == SelectSeq(seq, LAMBDA v : v > stored)

\* C29: the versions committed so far are in strictly ascending order (so
\* none twice) and the stored version is the last of them; a run that
\* succeeded committed exactly the mutations above the version stored when
\* it began (none when repeated after a success); a run that failed
\* committed nothing and left the stored version as it was.
C29_MutationsOnceInOrder ==
    /\ \A i \in 1..Len(evCommitted), j \in 1..Len(evCommitted) :
           i < j => evCommitted[i] < evCommitted[j]
    /\ evStored = IF evCommitted = <<>> THEN 0 ELSE evCommitted[Len(evCommitted)]
    /\ (evPc = "idle" /\ evLast = "ok") =>
           evCommitted = evBefore.committed
                           \o Above(LoadMutations(evEntries), evBefore.stored)
    /\ (evPc = "idle" /\ evLast = "failed") =>
           /\ evCommitted = evBefore.committed
           /\ evStored = evBefore.stored
C29_Witness ==
    /\ evPc = "idle"
    /\ evLast = "ok"
    /\ evRuns = MaxRuns
    /\ Len(evCommitted) >= 2
    /\ evBefore.committed = evCommitted
    /\ evBefore.stored = evStored

\* ErrorHTTP called by any handler with any error and options.
ErrorHTTPSpec == Init /\ [][ErrorHTTPNext]_vars

\* The WithStatus options among the options of a call.
StatusOptions(options) == SelectSeq(options, LAMBDA o : o.kind = "status")

\* C30: ErrorHTTP writes the status mapped from the error kind when no
\* WithStatus option is given, and the code of the WithStatus option when
\* one is.
C30_StatusMappedFromError ==
    ehPc = "written" =>
        LET given == StatusOptions(ehOptions) IN
        ehStatus = IF given = <<>> THEN MappedStatus(ehErr)
                   ELSE given[Len(given)].code

====
